---- MODULE Spec2Model ----
(***************************************************************************)
(* Model of the lean-prover embedding / indexing pipeline.                 *)
(*                                                                         *)
(*   src/src/embed.py             library pipeline  embed_jsonl_to_vecs    *)
(*   src/scripts/run_embedding.py script pipeline   main / embed           *)
(*   src/src/build_index.py       build_hnsw                               *)
(*   src/scripts/build_faiss.py   build_hnsw with its defaults             *)
(*   src/src/search.py            embed / k_nearest                        *)
(*                                                                         *)
(* Time is in whole seconds.  A float32 vector is a sequence of blocks of  *)
(* BlockFloats floats, so a 3072-d vector is two blocks and a 1536-d one   *)
(* is one block; the matrix file is the flat sequence of its blocks.       *)
(* A block records the text it embeds, its position in the embedding and   *)
(* its length relative to a block of a unit vector.                        *)
(***************************************************************************)
EXTENDS Integers, Sequences, FiniteSets, TLC

\* ------------------------------------------------------------ constants
TPM_LIMIT == 350000
Window == 60
BATCH_ROWS == 2048
HARD_LIMIT == 2048
DIM == 3072
DimSmall == 1536
BlockFloats == 1536
BytesPerFloat == 4

MODEL == "text-embedding-3-large"
Models == {"text-embedding-3-large", "text-embedding-3-small"}

\* ------------------------------------------------------------ bounds
MaxLines == 3
MaxBatch == 3
MaxChunk == 2

Texts == {"", "a", "b"}
TokCounts == {175000, 350001}
Deltas == {30, 60}
Late == {0, 30}

VARIABLES
  impl,          \* "lib" (src/src/embed.py) or "script" (scripts/run_embedding.py)
  model,         \* embedding model name
  batch_rows,    \* rows per API call
  corpus,        \* the JSONL file: a sequence of [decl, text] records
  enc,           \* the tokenizer: text -> number of tokens
  vecs,          \* the matrix file, as a flat sequence of blocks
  row, buf,      \* the streaming loop's row offset and batch buffer
  lineno,        \* lines of the corpus consumed so far
  flush,         \* which await of _embed is pending: "none", "loop", "final"
  pc,            \* position of the coroutine
  sent_tokens, window_start,   \* the throttle's module-level state
  clock,         \* the event loop's clock
  now, tok_cnt,  \* throttle's locals
  input,         \* the list handed to client.embeddings.create
  result,        \* the list last returned by _embed / embed
  inflight,      \* remote calls issued and not yet returned
  trace,         \* events so far: sleeps, charges, calls, returns, writes
  index, names, n_rows, bdim, chunk, start, ret,  \* build_hnsw
  loaded_index, loaded_names,  \* search.py's module-level index and names
  query, topk,   \* k_nearest's arguments
  qvec,          \* k_nearest's q
  ids, dists,    \* k_nearest's I[0] and D[0]
  valid_results, \* the list k_nearest returned last
  status,        \* how the last k_nearest call ended
  qcalls,        \* remote calls made by the current k_nearest call
  prev           \* what an earlier run on the same corpus was observed to do

pipevars == <<impl, model, batch_rows, corpus, enc, vecs, row, buf, lineno,
              flush, pc, sent_tokens, window_start, clock, now, tok_cnt,
              input, result, inflight, trace>>
\* the pipeline's variables other than pc
pipeframe == <<impl, model, batch_rows, corpus, enc, vecs, row, buf, lineno,
               flush, sent_tokens, window_start, clock, now, tok_cnt, input,
               result, inflight, trace>>
buildvars == <<index, names, n_rows, bdim, chunk, start, ret>>
queryvars == <<loaded_index, loaded_names, query, topk, qvec, ids, dists,
               valid_results, status, qcalls>>
extvars == <<queryvars, prev>>
vars == <<pipevars, buildvars, extvars>>

\* ------------------------------------------------------------ helpers
Min(a, b) == IF a < b THEN a ELSE b

IsLarge(m) == m = "text-embedding-3-large"

\* embed.py line 58: the matrix dimension chosen from the model name
dim == IF impl = "script" THEN DIM ELSE IF IsLarge(model) THEN DIM ELSE DimSmall

\* blocks per row of a matrix of dimension d
Blocks(d) == d \div BlockFloats

ZeroBlock == [src |-> "", part |-> 0, mag |-> 0]

\* np.zeros(DIM)
ZeroVec(d) == [i \in 1..Blocks(d) |-> ZeroBlock]

\* what the endpoint returns for one input: a unit vector of the model's
\* dimension
Embedding(m, t) ==
  [i \in 1..Blocks(IF IsLarge(m) THEN DIM ELSE DimSmall) |->
     [src |-> t, part |-> i, mag |-> 1]]

\* resp.data for a request: one item per input, in input order
Response(m, in) == [i \in 1..Len(in) |-> Embedding(m, in[i])]

Count(s, t) == Cardinality({i \in 1..Len(s) : s[i] = t})

RECURSIVE TokOver(_, _)
TokOver(s, ts) ==
  IF ts = {} THEN 0
  ELSE LET t == CHOOSE x \in ts : TRUE
       IN enc[t] * Count(s, t) + TokOver(s, ts \ {t})

\* sum(len(enc.encode(t)) for t in batch)
TokSum(s) == TokOver(s, Texts)

NonEmpty(t) == t # ""

\* valid = [t for t in batch if t]
Valid(batch) == SelectSeq(batch, NonEmpty)

\* position in resp.data consumed for batch[i] by next(data_iter)
DataPos(batch, i) == Cardinality({j \in 1..i : batch[j] # ""})

\* mutant: the empty texts get no vector at all
ReinsertDropEmpty(batch, resp) == resp

\* run_embedding.py lines 77-81: re-insert zero vectors
Reinsert(batch, resp) ==
  [i \in 1..Len(batch) |->
     IF batch[i] # "" THEN resp[DataPos(batch, i)] ELSE ZeroVec(DIM)]

\* run_embedding.py line 65: the all-empty batch
AllZeros(batch) == [i \in 1..Len(batch) |-> ZeroVec(DIM)]

\* what _embed / embed returns once the remote call has returned resp
EmbedResult(batch, resp) ==
  IF impl = "script" THEN Reinsert(batch, resp) ELSE resp

\* vecs[off : off + len(out)] = out
WriteRows(file, k, off, out) ==
  [i \in 1..Len(file) |->
     IF i > off * k /\ i <= (off + Len(out)) * k
     THEN out[((i - off * k - 1) \div k) + 1][((i - off * k - 1) % k) + 1]
     ELSE file[i]]

\* row r (0-based) of the file viewed with shape (n, d)
RowOf(file, d, r) == SubSeq(file, r * Blocks(d) + 1, (r + 1) * Blocks(d))

Event(kind, a, b, in) == [e |-> kind, x |-> a, y |-> b, input |-> in]

\* ------------------------------------------------------------ throttle
\* mutant: a window of exactly 60 seconds is not yet stale
StaleStrict(n, ws) == n - ws > Window

\* if now - window_start >= 60
Stale(n, ws) == n - ws >= Window

\* mutant: suspends already when the budget is met exactly
MustSleepAtLimit(st, tok) == st + tok >= TPM_LIMIT

\* if sent_tokens + tok_cnt > TPM_LIMIT
MustSleep(st, tok) == st + tok > TPM_LIMIT

\* mutant: the sleep lasts the time elapsed in the window, not the time left
SleepDurElapsed(n, ws) == n - ws

\* the argument of asyncio.sleep: 60 - (now - window_start)
SleepDur(n, ws) == Window - (n - ws)

\* ------------------------------------------------------------ pipeline
\* mutant: the row offset is not advanced after a flush
NextLoopStuck == row

\* mutant: the row offset is advanced by one row per flush
NextLoopByOne == row + 1

\* row += batch_rows
NextLoop == row + batch_rows

\* the assignment of the returned vectors and what follows it in the loop
Store(out) ==
  /\ result' = out
  /\ vecs' = WriteRows(vecs, Blocks(dim), row, out)
  /\ IF flush = "loop"
     THEN /\ row' = NextLoop
          /\ buf' = <<>>
          /\ pc' = "read"
     ELSE /\ row' = row
          /\ buf' = buf
          /\ pc' = "done"
  /\ flush' = "none"

\* async for line in fh: buf.append(json.loads(line)["text"])
ReadLine ==
  /\ pc = "read"
  /\ lineno < Len(corpus)
  /\ lineno' = lineno + 1
  /\ buf' = Append(buf, corpus[lineno + 1].text)
  /\ IF Len(buf') = batch_rows
     THEN pc' = "embed" /\ flush' = "loop"
     ELSE pc' = "read" /\ flush' = flush
  /\ UNCHANGED <<impl, model, batch_rows, corpus, enc, vecs, row, sent_tokens,
                 window_start, clock, now, tok_cnt, input, result, inflight,
                 trace>>
  /\ UNCHANGED buildvars
  /\ UNCHANGED extvars

\* the lines up to the next full buffer or the end of the file, in one step
ReadLines ==
  /\ pc = "read"
  /\ lineno < Len(corpus)
  /\ LET k == Min(batch_rows - Len(buf), Len(corpus) - lineno)
     IN /\ lineno' = lineno + k
        /\ buf' = buf \o [i \in 1..k |-> corpus[lineno + i].text]
  /\ IF Len(buf') = batch_rows
     THEN pc' = "embed" /\ flush' = "loop"
     ELSE pc' = "read" /\ flush' = flush
  /\ UNCHANGED <<impl, model, batch_rows, corpus, enc, vecs, row, sent_tokens,
                 window_start, clock, now, tok_cnt, input, result, inflight,
                 trace>>
  /\ UNCHANGED buildvars
  /\ UNCHANGED extvars

\* mutant: the final partial batch is dropped
EndOfFileNoFlush ==
  /\ pc = "read"
  /\ lineno = Len(corpus)
  /\ pc' = "done"
  /\ UNCHANGED <<impl, model, batch_rows, corpus, enc, vecs, row, buf, lineno,
                 flush, sent_tokens, window_start, clock, now, tok_cnt, input,
                 result, inflight, trace>>
  /\ UNCHANGED buildvars
  /\ UNCHANGED extvars

\* the corpus is exhausted: if buf: ... ; vecs.flush()
EndOfFile ==
  /\ pc = "read"
  /\ lineno = Len(corpus)
  /\ IF buf # <<>>
     THEN pc' = "embed" /\ flush' = "final"
     ELSE pc' = "done" /\ flush' = flush
  /\ UNCHANGED <<impl, model, batch_rows, corpus, enc, vecs, row, buf, lineno,
                 sent_tokens, window_start, clock, now, tok_cnt, input,
                 result, inflight, trace>>
  /\ UNCHANGED buildvars
  /\ UNCHANGED extvars

\* entry of _embed (library) / embed (script), up to the call of throttle
EmbedEnter ==
  /\ pc = "embed"
  /\ IF impl = "script" /\ Valid(buf) = <<>>
     THEN /\ Store(AllZeros(buf))
          /\ trace' = Append(trace, Event("write", row, Len(buf), <<>>))
          /\ UNCHANGED <<tok_cnt, input>>
     ELSE /\ input' = IF impl = "script" THEN Valid(buf) ELSE buf
          /\ tok_cnt' = TokSum(input')
          /\ pc' = "throttle"
          /\ UNCHANGED <<vecs, row, buf, flush, result, trace>>
  /\ UNCHANGED <<impl, model, batch_rows, corpus, enc, lineno, sent_tokens,
                 window_start, clock, now, inflight>>
  /\ UNCHANGED buildvars
  /\ UNCHANGED extvars

\* throttle, from its entry to the sleep or to its return
ThrottleEnter ==
  /\ pc = "throttle"
  /\ \E d \in Deltas :
       LET n == clock + d
           st == IF Stale(n, window_start) THEN 0 ELSE sent_tokens
           ws == IF Stale(n, window_start) THEN n ELSE window_start
       IN /\ clock' = n
          /\ now' = n
          /\ window_start' = ws
          /\ IF MustSleep(st, tok_cnt)
             THEN /\ sent_tokens' = st
                  /\ pc' = "sleep"
                  /\ trace' = Append(trace, Event("sleep", SleepDur(n, ws), n, <<>>))
             ELSE /\ sent_tokens' = st + tok_cnt
                  /\ pc' = "issue"
                  /\ trace' = Append(trace, Event("charge", tok_cnt, n, <<>>))
  /\ UNCHANGED <<impl, model, batch_rows, corpus, enc, vecs, row, buf, lineno,
                 flush, tok_cnt, input, result, inflight>>
  /\ UNCHANGED buildvars
  /\ UNCHANGED extvars

\* asyncio.sleep returns; the counters are reset and the tokens recorded
ThrottleWake ==
  /\ pc = "sleep"
  /\ \E l \in Late :
       LET t == now + SleepDur(now, window_start) + l
       IN /\ clock' = t
          /\ window_start' = t
          /\ sent_tokens' = 0 + tok_cnt
          /\ trace' = Append(trace, Event("charge", tok_cnt, t, <<>>))
  /\ pc' = "issue"
  /\ UNCHANGED <<impl, model, batch_rows, corpus, enc, vecs, row, buf, lineno,
                 flush, now, tok_cnt, input, result, inflight>>
  /\ UNCHANGED buildvars
  /\ UNCHANGED extvars

\* resp = await client.embeddings.create(model=model, input=...)
IssueCall ==
  /\ pc = "issue"
  /\ inflight' = inflight + 1
  /\ trace' = Append(trace, Event("call", Len(input), row, input))
  /\ pc' = "call"
  /\ UNCHANGED <<impl, model, batch_rows, corpus, enc, vecs, row, buf, lineno,
                 flush, sent_tokens, window_start, clock, now, tok_cnt, input,
                 result>>
  /\ UNCHANGED buildvars
  /\ UNCHANGED extvars

\* the remote call returns one vector per input; the rows are written
RemoteReturn ==
  /\ pc = "call"
  /\ inflight' = inflight - 1
  /\ LET out == EmbedResult(buf, Response(model, input))
     IN /\ Store(out)
        /\ trace' = trace \o <<Event("ret", Len(input), row, <<>>),
                               Event("write", row, Len(out), <<>>)>>
  /\ UNCHANGED <<impl, model, batch_rows, corpus, enc, lineno, sent_tokens,
                 window_start, clock, now, tok_cnt, input>>
  /\ UNCHANGED buildvars
  /\ UNCHANGED extvars

\* mutant: a failed call is issued again
RemoteFailRetry ==
  /\ pc = "call"
  /\ inflight' = inflight - 1
  /\ trace' = Append(trace, Event("fail", Len(input), row, <<>>))
  /\ pc' = "issue"
  /\ UNCHANGED <<impl, model, batch_rows, corpus, enc, vecs, row, buf, lineno,
                 flush, sent_tokens, window_start, clock, now, tok_cnt, input,
                 result>>
  /\ UNCHANGED buildvars
  /\ UNCHANGED extvars

\* the remote call raises; the exception leaves the pipeline
RemoteFail ==
  /\ pc = "call"
  /\ inflight' = inflight - 1
  /\ trace' = Append(trace, Event("fail", Len(input), row, <<>>))
  /\ pc' = "failed"
  /\ flush' = "none"
  /\ UNCHANGED <<impl, model, batch_rows, corpus, enc, vecs, row, buf, lineno,
                 sent_tokens, window_start, clock, now, tok_cnt, input, result>>
  /\ UNCHANGED buildvars
  /\ UNCHANGED extvars

\* scripts/run_embedding.py is started, in a process of its own, on the corpus
\* the library pipeline has just embedded; what that run did is kept in prev
RunScript ==
  /\ pc = "done"
  /\ impl = "lib"
  /\ prev = <<>>
  /\ prev' = <<[trace |-> trace, vecs |-> vecs]>>
  /\ impl' = "script"
  /\ vecs' = [i \in 1..(Len(corpus) * Blocks(DIM)) |-> ZeroBlock]
  /\ row' = 0
  /\ buf' = <<>>
  /\ lineno' = 0
  /\ flush' = "none"
  /\ pc' = "read"
  /\ sent_tokens' = 0
  /\ window_start' = 0
  /\ clock' = 0
  /\ now' = 0
  /\ tok_cnt' = 0
  /\ input' = <<>>
  /\ result' = <<>>
  /\ inflight' = 0
  /\ trace' = <<>>
  /\ UNCHANGED <<model, batch_rows, corpus, enc>>
  /\ UNCHANGED buildvars
  /\ UNCHANGED queryvars

NextEmbed ==
  \/ ReadLine
  \/ EndOfFile
  \/ EmbedEnter
  \/ ThrottleEnter
  \/ ThrottleWake
  \/ IssueCall
  \/ RemoteReturn
  \/ RemoteFail

\* ------------------------------------------------------------ build_hnsw
\* os.path.getsize(vec_path)
FileBytes(file) == Len(file) * BlockFloats * BytesPerFloat

\* n_rows = bytes_total // (dim * 4)
CountRows(file, d) == FileBytes(file) \div (d * BytesPerFloat)

\* vecs[s:e] of the memmap of shape (n_rows, d)
Slice(file, d, s, e) == [i \in 1..(e - s) |-> RowOf(file, d, s + i - 1)]

HasText(l) == l.text # ""

\* mutant: only the lines with a non-empty text are named
NameTableNonEmpty ==
  LET ls == SelectSeq(corpus, HasText) IN [i \in 1..Len(ls) |-> ls[i].decl]

\* names = [json.loads(line)["decl"] for line in open(jsonl_path)]
NameTable == [i \in 1..Len(corpus) |-> corpus[i].decl]

\* build_hnsw is called on the finished matrix with some dim and chunk
BuildStart ==
  /\ pc = "done"
  /\ \E d \in {DIM, DimSmall}, c \in 1..MaxChunk :
       /\ bdim' = d
       /\ chunk' = c
       /\ n_rows' = CountRows(vecs, d)
  /\ index' = <<>>
  /\ start' = 0
  /\ pc' = "build"
  /\ UNCHANGED <<impl, model, batch_rows, corpus, enc, vecs, row, buf, lineno,
                 flush, sent_tokens, window_start, clock, now, tok_cnt, input,
                 result, inflight, trace, names, ret>>
  /\ UNCHANGED extvars

\* mutant: the end of the chunk is taken as its last row
ChunkEndInclusive(s, c, n) == Min(s + c, n) - 1

\* end = min(start + chunk, n_rows)
ChunkEnd(s, c, n) == Min(s + c, n)

\* one pass of the loop: index.add(vecs[start:end])
BuildAdd ==
  /\ pc = "build"
  /\ start < n_rows
  /\ index' = index \o Slice(vecs, bdim, start, ChunkEnd(start, chunk, n_rows))
  /\ start' = start + chunk
  /\ UNCHANGED pipevars
  /\ UNCHANGED <<names, n_rows, bdim, chunk, ret>>
  /\ UNCHANGED extvars

\* the index and the name table are written; return n_rows
BuildFinish ==
  /\ pc = "build"
  /\ start >= n_rows
  /\ names' = NameTable
  /\ ret' = n_rows
  /\ pc' = "built"
  /\ UNCHANGED <<impl, model, batch_rows, corpus, enc, vecs, row, buf, lineno,
                 flush, sent_tokens, window_start, clock, now, tok_cnt, input,
                 result, inflight, trace, index, n_rows, bdim, chunk, start>>
  /\ UNCHANGED extvars

NextBuild ==
  \/ BuildStart
  \/ BuildAdd
  \/ BuildFinish


\* ------------------------------------------------------------ scripts/build_faiss.py
DefaultDim == 3072
DefaultChunk == 4096

\* main: build_hnsw(args.vecs, args.jsonl, args.out_prefix), dim and chunk
\* left at their defaults
BuildFaiss ==
  /\ pc = "done"
  /\ bdim' = DefaultDim
  /\ chunk' = DefaultChunk
  /\ n_rows' = CountRows(vecs, DefaultDim)
  /\ index' = <<>>
  /\ start' = 0
  /\ pc' = "build"
  /\ UNCHANGED <<impl, model, batch_rows, corpus, enc, vecs, row, buf, lineno,
                 flush, sent_tokens, window_start, clock, now, tok_cnt, input,
                 result, inflight, trace, names, ret>>
  /\ UNCHANGED extvars

\* ------------------------------------------------------------ search.py
\* Distances are squared Euclidean distances counted in units of 1 / Blocks:
\* a block of a unit vector of n blocks has squared length 1 / n.  Blocks of
\* the same text and position are parallel, all others are orthogonal.
Lengths == {1, 2}
QueryTexts == {"a", "b"}
MaxK == 4

\* a vector of the direction of v and of length s times its own
Scaled(v, s) == [i \in 1..Len(v) |-> [v[i] EXCEPT !.mag = v[i].mag * s]]

\* mutant: the query vector is used as the endpoint returned it
NormalizeNone(v) == v

\* faiss.normalize_L2 on a vector whose non-zero blocks have one common
\* length: the vector is divided by its norm, a zero vector is left alone
Normalize(v) ==
  [i \in 1..Len(v) |-> [v[i] EXCEPT !.mag = IF v[i].mag = 0 THEN 0 ELSE 1]]

Parallel(a, b) == a.src = b.src /\ a.part = b.part

RECURSIVE DistUpTo(_, _, _)
DistUpTo(u, v, n) ==
  IF n = 0 THEN 0
  ELSE DistUpTo(u, v, n - 1)
       + u[n].mag * u[n].mag + v[n].mag * v[n].mag
       - (IF Parallel(u[n], v[n]) THEN 2 * u[n].mag * v[n].mag ELSE 0)

\* the squared L2 distance of two vectors of the same dimension
Dist(u, v) == DistUpTo(u, v, Len(u))

\* the label and the distance of a missing result
Sentinel == 0 - 1

\* index.search(q, k) on an index holding the rows ix: the min(k, n) nearest
\* rows by ascending distance, equal distances in any order, then sentinels
SearchResults(ix, qv, kk) ==
  LET n == Len(ix)
      m == Min(kk, n)
      dv == [r \in 0..(n - 1) |-> Dist(qv, ix[r + 1])]
      d(r) == dv[r]
      orders == {p \in [1..m -> 0..(n - 1)] :
                   /\ \A i, j \in 1..m : i < j => p[i] # p[j] /\ d(p[i]) <= d(p[j])
                   /\ \A r \in 0..(n - 1) :
                        (\A i \in 1..m : p[i] # r) => \A i \in 1..m : d(p[i]) <= d(r)}
  IN {[I |-> [j \in 1..kk |-> IF j <= m THEN p[j] ELSE Sentinel],
       D |-> [j \in 1..kk |-> IF j <= m THEN d(p[j]) ELSE Sentinel]] : p \in orders}

\* the positions j of I[0] with i != -1, in order
Kept(I) == SelectSeq([j \in 1..Len(I) |-> j], LAMBDA j : I[j] # Sentinel)

\* mutant: the sentinel entries are not filtered out; names[-1] is the last name
ValidResultsUnfiltered(I, D, nm) ==
  [j \in 1..Len(I) |->
     [name |-> IF I[j] # Sentinel THEN nm[I[j] + 1]
               ELSE IF nm = <<>> THEN 0 ELSE nm[Len(nm)],
      dist |-> D[j]]]

\* mutant: the name is looked up by the position in the result list
ValidResultsByPosition(I, D, nm) ==
  LET js == Kept(I)
  IN [n \in 1..Len(js) |-> [name |-> nm[js[n]], dist |-> D[js[n]]]]

\* [(names[int(i)], float(D[0][j])) for j, i in enumerate(I[0]) if i != -1]
ValidResults(I, D, nm) ==
  LET js == Kept(I)
  IN [n \in 1..Len(js) |-> [name |-> nm[I[js[n]] + 1], dist |-> D[js[n]]]]

\* names[int(i)] raises IndexError for a label beyond the name table
NameMissing(I, nm) == \E j \in 1..Len(I) : I[j] # Sentinel /\ I[j] >= Len(nm)

\* import of search.py: faiss.read_index(INDEX_PATH), np.load(NAMES_PATH)
LoadIndex ==
  /\ pc = "built"
  /\ loaded_index' = index
  /\ loaded_names' = names
  /\ pc' = "serving"
  /\ UNCHANGED pipeframe
  /\ UNCHANGED buildvars
  /\ UNCHANGED <<query, topk, qvec, ids, dists, valid_results, status, qcalls,
                 prev>>

\* mutant: the query's embedding call goes through the rate limiter
KNearestCallThrottled ==
  /\ pc = "serving"
  /\ \E t \in QueryTexts, kk \in 1..MaxK :
       /\ query' = t
       /\ topk' = kk
  /\ sent_tokens' = sent_tokens + enc[query']
  /\ qcalls' = 0 + 1
  /\ qvec' = <<>>
  /\ ids' = <<>>
  /\ dists' = <<>>
  /\ valid_results' = <<>>
  /\ pc' = "qcall"
  /\ UNCHANGED <<impl, model, batch_rows, corpus, enc, vecs, row, buf, lineno,
                 flush, window_start, clock, now, tok_cnt, input, result,
                 inflight, trace>>
  /\ UNCHANGED buildvars
  /\ UNCHANGED <<loaded_index, loaded_names, status, prev>>

\* k_nearest(query, k) up to its remote call: embed(query) calls
\* openai.embeddings.create(model=MODEL, input=text)
KNearestCall ==
  /\ pc = "serving"
  /\ \E t \in QueryTexts, kk \in 1..MaxK :
       /\ query' = t
       /\ topk' = kk
  /\ qcalls' = 0 + 1
  /\ qvec' = <<>>
  /\ ids' = <<>>
  /\ dists' = <<>>
  /\ valid_results' = <<>>
  /\ pc' = "qcall"
  /\ UNCHANGED pipeframe
  /\ UNCHANGED buildvars
  /\ UNCHANGED <<loaded_index, loaded_names, status, prev>>

\* the remote call raises; the exception leaves k_nearest
KNearestFail ==
  /\ pc = "qcall"
  /\ status' = "raised"
  /\ pc' = "serving"
  /\ UNCHANGED pipeframe
  /\ UNCHANGED buildvars
  /\ UNCHANGED <<loaded_index, loaded_names, query, topk, qvec, ids, dists,
                 valid_results, qcalls, prev>>

\* the remote call returns a vector of some length; k_nearest normalizes it,
\* searches the index, drops the sentinels and returns
KNearestReturn ==
  /\ pc = "qcall"
  /\ \E s \in Lengths :
       LET qv == Normalize(Scaled(Embedding(MODEL, query), s))
       IN /\ qvec' = qv
          /\ IF Len(qv) * BlockFloats # bdim
             THEN /\ status' = "raised"
                  /\ UNCHANGED <<ids, dists, valid_results>>
             ELSE \E r \in SearchResults(loaded_index, qv, topk) :
                    /\ ids' = r.I
                    /\ dists' = r.D
                    /\ IF NameMissing(r.I, loaded_names)
                       THEN /\ status' = "raised"
                            /\ valid_results' = <<>>
                       ELSE /\ status' = "returned"
                            /\ valid_results' = ValidResults(r.I, r.D, loaded_names)
  /\ pc' = "serving"
  /\ UNCHANGED pipeframe
  /\ UNCHANGED buildvars
  /\ UNCHANGED <<loaded_index, loaded_names, query, topk, qcalls, prev>>

\* ------------------------------------------------------------ initial states
Line(i, t) == [decl |-> i, text |-> t]

Corpora ==
  UNION {{[i \in 1..n |-> Line(i, ts[i])] : ts \in [1..n -> Texts]} : n \in 0..MaxLines}

\* the empty text has no token, "a" costs half the budget and "b" either half
\* the budget or more than the whole of it
HalfBudget == TPM_LIMIT \div 2

Tokenizers ==
  {f \in [Texts -> TokCounts \cup {0}] :
     /\ \A t \in Texts : f[t] = 0 <=> t = ""
     /\ f["a"] = HalfBudget}

InitRest ==
  /\ row = 0
  /\ buf = <<>>
  /\ lineno = 0
  /\ flush = "none"
  /\ sent_tokens = 0
  /\ window_start = 0
  /\ clock = 0
  /\ now = 0
  /\ tok_cnt = 0
  /\ input = <<>>
  /\ result = <<>>
  /\ inflight = 0
  /\ trace = <<>>
  /\ index = <<>>
  /\ names = <<>>
  /\ n_rows = 0
  /\ bdim = 0
  /\ chunk = 0
  /\ start = 0
  /\ ret = 0
  /\ loaded_index = <<>>
  /\ loaded_names = <<>>
  /\ query = ""
  /\ topk = 0
  /\ qvec = <<>>
  /\ ids = <<>>
  /\ dists = <<>>
  /\ valid_results = <<>>
  /\ status = "none"
  /\ qcalls = 0
  /\ prev = <<>>

\* the matrix file is created with every row zero; the loop is at its head
InitCommon ==
  /\ vecs = [i \in 1..(Len(corpus) * Blocks(dim)) |-> ZeroBlock]
  /\ pc = "read"
  /\ InitRest

Init ==
  /\ impl \in {"lib", "script"}
  /\ model \in IF impl = "script" THEN {MODEL} ELSE Models
  /\ batch_rows \in IF impl = "script" THEN {BATCH_ROWS} ELSE 1..MaxBatch
  /\ corpus \in Corpora
  /\ enc \in Tokenizers
  /\ InitCommon

Next == NextEmbed \/ NextBuild

Spec == Init /\ [][Next]_vars

\* The pipeline alone, on the corpora of at most MaxLiveLines lines, with the
\* event loop's scheduling: a coroutine that can take its next step in
\* throttle is run, and the timer of asyncio.sleep fires.
MaxLiveLines == 2

InitLive ==
  /\ Init
  /\ Len(corpus) <= MaxLiveLines

SpecLive ==
  /\ InitLive
  /\ [][NextEmbed]_vars
  /\ WF_vars(ThrottleEnter)
  /\ WF_vars(ThrottleWake)

\* The library pipeline with the script's model and batch size, followed by
\* the script on the same corpus and tokenizer.
InitPair ==
  /\ impl = "lib"
  /\ model = MODEL
  /\ batch_rows = BATCH_ROWS
  /\ corpus \in Corpora
  /\ enc \in Tokenizers
  /\ InitCommon

NextPair ==
  \/ NextEmbed
  \/ RunScript

SpecPair == InitPair /\ [][NextPair]_vars

\* A corpus of one line more than the endpoint's hard limit, for the library
\* called with its default batch_rows and with one more, and for the script.
BigCorpora ==
  {[i \in 1..(HARD_LIMIT + 1) |-> Line(i, IF i <= HARD_LIMIT THEN "a" ELSE t)] :
     t \in {"", "a"}}

InitBig ==
  /\ impl \in {"lib", "script"}
  /\ model = MODEL
  /\ batch_rows \in IF impl = "script" THEN {BATCH_ROWS}
                    ELSE {BATCH_ROWS, BATCH_ROWS + 1}
  /\ corpus \in BigCorpora
  /\ enc \in {f \in Tokenizers : f["b"] = f["a"]}
  /\ InitCommon

NextBig ==
  \/ ReadLines
  \/ EndOfFile
  \/ EmbedEnter
  \/ ThrottleEnter
  \/ ThrottleWake
  \/ IssueCall
  \/ RemoteReturn
  \/ RemoteFail

SpecBig == InitBig /\ [][NextBig]_vars

\* The query engine on the files build_faiss.py leaves for a matrix file and a
\* corpus of as many lines: the rows are zero vectors or vectors along the
\* embedding of a text, of length 1 or 2.
MatrixRows ==
  {ZeroVec(DIM)} \cup {Scaled(Embedding(MODEL, t), s) : t \in QueryTexts, s \in Lengths}

Matrices(n) ==
  {[i \in 1..(n * Blocks(DIM)) |->
      f[((i - 1) \div Blocks(DIM)) + 1][((i - 1) % Blocks(DIM)) + 1]] :
     f \in [1..n -> MatrixRows]}

InitQuery ==
  /\ impl = "script"
  /\ model = MODEL
  /\ batch_rows = BATCH_ROWS
  /\ enc \in {f \in Tokenizers : f["b"] = f["a"]}
  /\ \E n \in 0..MaxLines :
       /\ corpus = [i \in 1..n |-> Line(i, "a")]
       /\ vecs \in Matrices(n)
  /\ pc = "done"
  /\ InitRest

NextQuery ==
  \/ BuildFaiss
  \/ BuildAdd
  \/ BuildFinish
  \/ LoadIndex
  \/ KNearestCall
  \/ KNearestFail
  \/ KNearestReturn

SpecQuery == InitQuery /\ [][NextQuery]_vars

\* ------------------------------------------------------------ observations
IsCall(ev) == ev.e = "call"
IsWrite(ev) == ev.e = "write"
IsCharge(ev) == ev.e = "charge"
IsSleep(ev) == ev.e = "sleep"

CallEvents == SelectSeq(trace, IsCall)
WriteEvents == SelectSeq(trace, IsWrite)
ChargeEvents == SelectSeq(trace, IsCharge)

\* the vector the pipeline is to store for corpus line i (1-based)
LineVec(i) ==
  IF impl = "script" /\ corpus[i].text = ""
  THEN ZeroVec(DIM)
  ELSE Embedding(model, corpus[i].text)

\* how many write events cover matrix row r (0-based)
TimesWritten(r) ==
  Cardinality({k \in 1..Len(WriteEvents) :
                 WriteEvents[k].x <= r /\ r < WriteEvents[k].x + WriteEvents[k].y})

\* the writes tile [0, n) in order: each begins where the previous one ended
WritesTile(n) ==
  /\ \A k \in 1..Len(WriteEvents) :
       WriteEvents[k].x = (IF k = 1 THEN 0 ELSE WriteEvents[k - 1].x + WriteEvents[k - 1].y)
  /\ IF WriteEvents = <<>> THEN n = 0
     ELSE WriteEvents[Len(WriteEvents)].x + WriteEvents[Len(WriteEvents)].y = n

\* ------------------------------------------------------------ claims

\* C1: when every remote call succeeded, the pipeline ends with row i of the
\* matrix holding the vector of corpus line i for every i < N, the N rows
\* written exactly once each, in corpus order, without gap or duplicate.
C1_RowsAlignedWithCorpus ==
  pc = "done" =>
    /\ Len(vecs) = Len(corpus) * Blocks(dim)
    /\ \A i \in 1..Len(corpus) :
         /\ RowOf(vecs, dim, i - 1) = LineVec(i)
         /\ TimesWritten(i - 1) = 1
    /\ WritesTile(Len(corpus))

C1_Witness ==
  /\ pc = "done"
  /\ impl = "lib"
  /\ Len(corpus) = 3
  /\ batch_rows = 2
  /\ Len(WriteEvents) = 2
  /\ corpus[1].text # corpus[2].text

\* C2: whenever throttle returns, the tokens recorded for the current window
\* do not exceed the budget.
C2_SentWithinBudget == pc = "issue" => sent_tokens <= TPM_LIMIT

\* C3: at most one remote call is in flight; a call is issued only after the
\* previous call has returned and its vectors were written; the writes happen
\* at strictly increasing row offsets.
C3_OneBatchInFlight ==
  /\ inflight \in {0, 1}
  /\ inflight = 1 <=> pc = "call"
  /\ \A i \in 1..Len(trace) :
       trace[i].e = "call" =>
         /\ i = Len(trace) => pc = "call"
         /\ i < Len(trace) =>
              \/ trace[i + 1].e = "fail"
              \/ /\ trace[i + 1].e = "ret"
                 /\ i + 2 <= Len(trace)
                 /\ trace[i + 2].e = "write"
                 /\ trace[i + 2].x = trace[i].y
  /\ \A k \in 2..Len(WriteEvents) : WriteEvents[k - 1].x < WriteEvents[k].x

C3_Witness ==
  /\ pc = "call"
  /\ Len(CallEvents) = 3
  /\ Len(WriteEvents) = 2

\* C4: a throttle call suspends exactly when, after the stale-window reset,
\* sent_tokens + token_count exceeds the budget; while it is suspended the
\* tokens are not yet recorded and the remote call is not yet made; otherwise
\* it records the tokens and returns at once.
C4_SuspendsExactlyWhenOverBudget ==
  [][
      /\ (pc = "throttle") =>
           (LET st == IF clock' - window_start >= 60 THEN 0 ELSE sent_tokens
            IN IF st + tok_cnt > 350000
               THEN /\ pc' = "sleep"
                    /\ sent_tokens' = st
                    /\ trace'[Len(trace')].e = "sleep"
               ELSE /\ pc' = "issue"
                    /\ sent_tokens' = st + tok_cnt
                    /\ trace'[Len(trace')].e = "charge")
      /\ (pc = "sleep") =>
           (/\ sent_tokens + tok_cnt > 350000
            /\ Len(ChargeEvents) = Len(CallEvents)
            /\ inflight = 0
            /\ trace[Len(trace)].e = "sleep")
    ]_vars

C4_Witness ==
  /\ pc = "sleep"
  /\ sent_tokens > 0
  /\ tok_cnt <= TPM_LIMIT
  /\ now - window_start < Window

\* C5: when at least 60 seconds have passed since window_start as throttle is
\* called, the counter is reset to zero and window_start is set to the current
\* time, and a call for at most the budget returns without suspending and
\* leaves sent_tokens = token_count.
C5_StaleWindowResets ==
  [][(pc = "throttle" /\ clock' - window_start >= 60) =>
        /\ now' = clock'
        /\ window_start' = now'
        /\ IF tok_cnt <= 350000
           THEN pc' = "issue" /\ sent_tokens' = tok_cnt
           ELSE pc' = "sleep" /\ sent_tokens' = 0]_vars

C5_Witness ==
  /\ pc = "issue"
  /\ Len(ChargeEvents) >= 2
  /\ trace[Len(trace) - 1].e # "sleep"
  /\ window_start = now
  /\ now >= Window
  /\ sent_tokens = tok_cnt
  /\ ChargeEvents[Len(ChargeEvents) - 1].x > 0
  /\ ChargeEvents[Len(ChargeEvents) - 1].y + Window <= now

\* C6: whenever _embed / embed returns, it returns one vector per text of the
\* batch it was given, each of the configured dimension, whatever the number
\* and positions of the empty texts.
C6_OneVectorPerInput ==
  [][(flush # "none" /\ flush' = "none" /\ pc' # "failed") =>
        /\ Len(result') = Len(buf)
        /\ \A i \in 1..Len(result') : Len(result'[i]) * BlockFloats = dim]_vars

C6_Witness ==
  /\ pc = "done"
  /\ impl = "script"
  /\ Len(result) = 3
  /\ result[1] = ZeroVec(DIM)
  /\ result[2] # ZeroVec(DIM)
  /\ result[3] = ZeroVec(DIM)

\* C7: an empty text yields an all-zero vector, is never part of the input of
\* a remote call and never causes a rate-limiter call; a batch of empty texts
\* only makes no remote call and leaves sent_tokens and window_start alone.
C7_EmptyBypassesRemoteAndLimiter ==
  /\ \A k \in 1..Len(trace) :
       trace[k].e = "call" => \A j \in 1..Len(trace[k].input) : trace[k].input[j] # ""
  /\ pc \in {"throttle", "sleep", "issue", "call"} => Valid(buf) # <<>>
  /\ pc = "done" =>
       \A i \in 1..Len(corpus) :
         corpus[i].text = "" => RowOf(vecs, dim, i - 1) = ZeroVec(dim)

\* C8: every remote call carries at most the endpoint's hard maximum of 2048
\* inputs, and at most batch_rows inputs, whatever batch_rows the caller gave.
C8_BatchWithinHardLimit ==
  \A k \in 1..Len(trace) :
    trace[k].e = "call" =>
      /\ Len(trace[k].input) <= batch_rows
      /\ Len(trace[k].input) <= HARD_LIMIT

\* C9: when the remote call for the batch starting at row r fails, no further
\* remote call is made, rows [0, r) hold the vectors written for them and
\* rows [r, N) are unwritten.
C9_FailureHaltsPipeline ==
  \A k \in 1..Len(trace) :
    trace[k].e = "fail" =>
      /\ k = Len(trace)
      /\ pc = "failed"
      /\ inflight = 0
      /\ trace[k].y = row
      /\ \A i \in 1..Len(corpus) :
           IF i <= row
           THEN RowOf(vecs, dim, i - 1) = LineVec(i) /\ TimesWritten(i - 1) = 1
           ELSE RowOf(vecs, dim, i - 1) = ZeroVec(dim) /\ TimesWritten(i - 1) = 0

C9_Witness ==
  /\ pc = "failed"
  /\ row = 2
  /\ Len(corpus) = 3
  /\ corpus[1].text # ""
  /\ corpus[3].text # ""

\* the three artifacts agree on N and on every row
ArtifactsAgree ==
  /\ ret = Len(corpus)
  /\ Len(index) = Len(corpus)
  /\ Len(names) = Len(corpus)
  /\ \A i \in 1..Len(corpus) :
       /\ index[i] = LineVec(i)
       /\ names[i] = corpus[i].decl

\* C10 (as stated): after the pipeline and then build_hnsw on its matrix and
\* corpus, the returned count, the index population and the name table length
\* equal N, index row i holds the vector of line i and names[i] its decl.
C10_ArtifactsAgree == pc = "built" => ArtifactsAgree

\* C10 (amended): the same, when build_hnsw is given the dimension of the
\* matrix the pipeline wrote.
C10_ArtifactsAgreeSameDim == (pc = "built" /\ bdim = dim) => ArtifactsAgree

C10_Witness ==
  /\ pc = "built"
  /\ bdim = dim
  /\ Len(corpus) = 3
  /\ chunk = 2
  /\ Len(index) = 3
  /\ corpus[1].text # corpus[3].text

\* C11: for every matrix and every chunk size, build_hnsw inserts exactly the
\* rows 0 .. n_rows - 1 of the matrix, each once and in ascending order: after
\* each pass the index holds the rows before start, and at the end all n_rows
\* rows, whatever the chunk size (dividing n_rows or not, larger than n_rows
\* or not).
C11_InsertsEveryRowInOrder ==
  /\ pc = "build" => index = Slice(vecs, bdim, 0, Min(start, n_rows))
  /\ pc = "built" =>
       /\ Len(index) = n_rows
       /\ \A r \in 0..(n_rows - 1) : index[r + 1] = RowOf(vecs, bdim, r)

C11_Witness ==
  /\ pc = "built"
  /\ n_rows = 3
  /\ chunk = 2
  /\ start = 4
  /\ index[1] # index[2]
  /\ index[2] # index[3]
  /\ index[1] # index[3]

\* the number of sentinel entries of the last search result
Sentinels == Cardinality({j \in 1..Len(ids) : ids[j] = Sentinel})

\* the position in the search result of the n-th entry that is no sentinel
ValidPos(n) ==
  CHOOSE j \in 1..Len(ids) :
    /\ ids[j] # Sentinel
    /\ Cardinality({i \in 1..j : ids[i] # Sentinel}) = n

\* k_nearest has obtained the query's embedding and has ended
Answered == pc = "serving" /\ qvec # <<>>

\* C12: for every k and every index of n < k vectors (n = 0 included), once
\* it has the query's embedding k_nearest returns without raising, with
\* strictly fewer than k results: the n valid rows, each once, and no pair
\* made from a sentinel.
C12_FewerThanKWithoutError ==
  (Answered /\ topk > Len(loaded_index)) =>
    /\ status = "returned"
    /\ Len(ids) = topk
    /\ Sentinels = topk - Len(loaded_index)
    /\ Len(valid_results) = Len(loaded_index)
    /\ Len(valid_results) < topk
    /\ \A r \in 1..Len(loaded_index) :
         Cardinality({n \in 1..Len(valid_results) :
                        valid_results[n].name = loaded_names[r]}) = 1
    /\ \A n \in 1..Len(valid_results) : valid_results[n].dist # Sentinel

C12_Witness ==
  /\ Answered
  /\ status = "returned"
  /\ topk = 4
  /\ Len(loaded_index) = 2
  /\ Len(valid_results) = 2
  /\ ids[3] = Sentinel
  /\ ids[4] = Sentinel

\* C13: the list k_nearest returns is the search result with the sentinels
\* removed and nothing else changed: the n-th pair is made from the n-th
\* non-sentinel entry, pairs the name of that entry's row with the distance
\* of that same row, and the distances do not decrease along the list.
C13_ResultsInIndexOrder ==
  (Answered /\ status = "returned") =>
    /\ Len(valid_results) = Len(ids) - Sentinels
    /\ \A n \in 1..Len(valid_results) :
         LET j == ValidPos(n)
         IN /\ valid_results[n].name = loaded_names[ids[j] + 1]
            /\ valid_results[n].dist = dists[j]
            /\ valid_results[n].dist = Dist(qvec, loaded_index[ids[j] + 1])
    /\ \A n \in 2..Len(valid_results) :
         valid_results[n - 1].dist <= valid_results[n].dist

C13_Witness ==
  /\ Answered
  /\ status = "returned"
  /\ Len(loaded_index) = 3
  /\ loaded_index[1] = loaded_index[3]
  /\ loaded_index[1] = qvec
  /\ loaded_index[2] # ZeroVec(DIM)
  /\ topk = 3
  /\ valid_results[1] = [name |-> loaded_names[3], dist |-> 0]
  /\ valid_results[2] = [name |-> loaded_names[1], dist |-> 0]
  /\ valid_results[3].name = loaded_names[2]
  /\ valid_results[3].dist > 0

\* row r of the loaded index holds the query's embedding at some length
AlongQuery(r) ==
  \E s \in Lengths : loaded_index[r] = Scaled(Embedding(MODEL, query), s)

C15_QueryFrame ==
  [][
      /\ (pc = "serving") =>
           (/\ pc' = "qcall"
            /\ qcalls' = 1)
      /\ (pc = "qcall") =>
           (/\ pc' = "serving"
            /\ qcalls' = qcalls)
      /\ (pc \in {"serving", "qcall"}) =>
           (/\ sent_tokens' = sent_tokens
            /\ window_start' = window_start
            /\ trace' = trace
            /\ loaded_index' = loaded_index
            /\ loaded_names' = loaded_names
            /\ loaded_index = index
            /\ loaded_names = names
            /\ index' = index
            /\ names' = names)
    ]_vars

C15_Witness ==
  /\ pc = "qcall"
  /\ status = "returned"
  /\ valid_results = <<>>
  /\ qcalls = 1
  /\ Len(loaded_index) = 3
  /\ sent_tokens = 0
  /\ window_start = 0

\* the batch holds both an empty and a non-empty text
Mixed(batch) == Valid(batch) # <<>> /\ Valid(batch) # batch

\* C16: for a batch mixing empty and non-empty texts, the remote call carries
\* exactly the non-empty texts in their order, the tokens charged are those
\* of the non-empty texts, and the vector returned at position i is zero when
\* the i-th text is empty and otherwise the response vector of that text.
C16_MixedBatch ==
  Mixed(buf) =>
    /\ pc \in {"throttle", "sleep", "issue", "call"} =>
         /\ input = Valid(buf)
         /\ tok_cnt = TokSum(Valid(buf))
    /\ (pc = "done" /\ Len(result) = Len(buf)) =>
         \A i \in 1..Len(buf) :
           result[i] = IF buf[i] = "" THEN ZeroVec(dim) ELSE Embedding(model, buf[i])

\* C18: the loop invariant of the pipeline, for every batch size B: the rows
\* flushed plus the texts buffered are the lines consumed so far; whenever
\* the loop is at its head row is a multiple of B, fewer than B texts are
\* buffered and exactly the rows [0, row) have been written; the flushes of
\* the loop write B rows each at offsets 0, B, 2B, ...; the final partial
\* flush writes the rows [row, row + len(buffer)) and ends at N.
C18_LoopInvariant ==
  /\ row + Len(buf) = lineno
  /\ Len(buf) <= batch_rows
  /\ pc = "read" =>
       /\ row % batch_rows = 0
       /\ Len(buf) < batch_rows
       /\ \A r \in 0..(Len(corpus) - 1) :
            TimesWritten(r) = (IF r < row THEN 1 ELSE 0)
  /\ \A k \in 1..Len(WriteEvents) :
       /\ WriteEvents[k].x = (k - 1) * batch_rows
       /\ \/ /\ WriteEvents[k].y = batch_rows
             /\ WriteEvents[k].x + batch_rows <= row
          \/ /\ k = Len(WriteEvents)
             /\ pc \notin {"read", "embed", "throttle", "sleep", "issue", "call", "failed"}
             /\ WriteEvents[k].x = row
             /\ WriteEvents[k].y = Len(buf)
             /\ 0 < Len(buf)
             /\ row + Len(buf) = Len(corpus)

C18_Witness ==
  /\ pc = "done"
  /\ impl = "lib"
  /\ batch_rows = 2
  /\ Len(corpus) = 3
  /\ row = 2
  /\ Len(buf) = 1
  /\ Len(WriteEvents) = 2
  /\ WriteEvents[2].x = 2
  /\ WriteEvents[2].y = 1

\* C17: every throttle call returns: it goes to sleep at most once, for a
\* duration 60 - (now - window_start) that is more than 0 and at most 60
\* seconds, and when it returns after a sleep sent_tokens is the token count
\* of the call and window_start is the time of the wake-up.
C17_ThrottleReturns ==
  /\ [](pc = "sleep" =>
          /\ trace[Len(trace)].e = "sleep"
          /\ trace[Len(trace)].x = 60 - (now - window_start)
          /\ trace[Len(trace)].x > 0
          /\ trace[Len(trace)].x <= 60)
  /\ [][
         /\ (pc = "throttle") => (pc' \in {"sleep", "issue"})
         /\ (pc = "sleep") =>
              (/\ pc' = "issue"
               /\ sent_tokens' = tok_cnt
               /\ window_start' = clock'
               /\ clock' >= now + trace[Len(trace)].x)
       ]_vars
  /\ (pc \in {"throttle", "sleep"}) ~> (pc = "issue")

C17_Witness ==
  /\ pc = "issue"
  /\ Len(trace) >= 3
  /\ trace[Len(trace) - 1].e = "sleep"
  /\ trace[Len(trace) - 1].x = 30
  /\ trace[Len(trace)].e = "charge"
  /\ sent_tokens = tok_cnt
  /\ window_start = clock
  /\ clock = now + 30 + 30

IsObserved(ev) == ev.e \in {"call", "charge", "sleep"}

\* the remote calls with their inputs and the limiter's charges and sleeps
Observed(tr) == SelectSeq(tr, IsObserved)

IsReading(ev) == ev.e \in {"charge", "sleep"}

\* the clock readings a run made
Readings(tr) ==
  LET rs == SelectSeq(tr, IsReading) IN [i \in 1..Len(rs) |-> rs[i].y]

\* C19: run on the same corpus with the same batch size, budget and clock
\* readings, the library pipeline and the script make the same remote calls
\* with the same inputs, the same limiter charges and sleeps, and leave the
\* same matrix.
C19_SameObservations ==
  (pc = "done" /\ prev # <<>> /\ Readings(prev[1].trace) = Readings(trace)) =>
    /\ Observed(prev[1].trace) = Observed(trace)
    /\ prev[1].vecs = vecs

====
